---- MODULE Spec2Model ----
(***************************************************************************)
(* Model of the rolling-window token budget tracker of ralph-agent         *)
(* (src/src/token_tracker.py, class TokenBudgetTracker) and of the pacing  *)
(* sleep its caller performs (src/src/execution.py, execute_task).         *)
(*                                                                         *)
(* Time is the value of time.time() in whole seconds and never decreases.  *)
(* One method call is one action: the successive time.time() readings      *)
(* inside one call are taken at the same instant.  Token counts and the    *)
(* float results of get_wait_time are integers (the buffer 2.0 and every   *)
(* window used here are whole numbers of seconds).                         *)
(***************************************************************************)
EXTENDS Integers, Sequences, FiniteSets, TLC

\* ---------------------------------------------------------------- bounds
MaxTime == 4        \* the clock runs from 0 to MaxTime
MaxRecords == 3     \* record_usage calls accepted per tracker instance
MaxTok == 1         \* tokens of one record_usage call: 0..MaxTok
MaxEstimate == 2    \* estimated_next_tokens of get_wait_time: 0..MaxEstimate
MaxWindow == 3      \* window_seconds is MaxWindow - 1 or MaxWindow
MaxLimit == 2       \* max_tokens_per_minute given to the constructor
MaxToolCalls == 1   \* num_tool_calls of estimate_iteration_tokens: 0..MaxToolCalls

\* ------------------------------------------------------ program constants
Buffer == 2              \* the 2.0 seconds added in get_wait_time
SafetyMarginPct == 90    \* safety_margin = 0.9, as a percentage
base_tokens == 3000      \* estimate_iteration_tokens: base context
tokens_per_tool == 2000  \* estimate_iteration_tokens: increment per tool call

VARIABLES
    now,             \* time.time()
    max_tokens,      \* self.max_tokens
    window_seconds,  \* self.window_seconds
    persist_path,    \* TRUE iff self.persist_path is set
    usage_history,   \* self.usage_history: Seq of [timestamp, tokens]
    file,            \* the content of persist_path on disk
    lastOp,          \* the operation that ran last
    arg,             \* its argument (0 when it has none)
    ret,             \* its return value (0 when it returns None)
    saved,           \* how the last call's _save_state ended ("none": it made none)
    synced,          \* TRUE iff the file holds this tracker's last save and every
                     \* record_usage since then was saved too
    log,              \* every record this tracker instance was given, oldest first
    loop,            \* the agent loop of the running program: its position and counters
    peer             \* the tracker of a second process on the same persist_path

vars == <<now, max_tokens, window_seconds, persist_path, usage_history, file,
          lastOp, arg, ret, saved, synced, log, loop, peer>>

config == <<max_tokens, window_seconds, persist_path>>

\* ----------------------------------------------------------------- helpers
Max(a, b) == IF a >= b THEN a ELSE b

\* TokenUsage(timestamp=..., tokens=...)
TokenUsage(ts, k) == [timestamp |-> ts, tokens |-> k]

\* sum(record.tokens for record in h)
RECURSIVE SumTokens(_)
SumTokens(h) == IF h = <<>> THEN 0 ELSE Head(h).tokens + SumTokens(Tail(h))

\* int(max_tokens_per_minute * safety_margin), the margin given in percent
CapOf(limit, marginPct) == (limit * marginPct) \div 100

\* mutant of clean_old_records: `if` for `while`, at most one record is popped
clean_one_record(h, t) ==
    IF h # <<>> /\ Head(h).timestamp < t - window_seconds THEN Tail(h) ELSE h

\* mutant of clean_old_records: `<=` for `<`, a record is popped at the boundary
RECURSIVE clean_boundary_too(_, _)
clean_boundary_too(h, t) ==
    IF h # <<>> /\ Head(h).timestamp <= t - window_seconds
    THEN clean_boundary_too(Tail(h), t)
    ELSE h

\* mutant of clean_old_records: pop() for popleft(), the youngest record goes
\* while the front record is stale
RECURSIVE clean_pop_back(_, _)
clean_pop_back(h, t) ==
    IF h # <<>> /\ Head(h).timestamp < t - window_seconds
    THEN clean_pop_back(SubSeq(h, 1, Len(h) - 1), t)
    ELSE h

\* _clean_old_records at time t: popleft while the front record is older
\* than the cutoff
RECURSIVE clean_old_records(_, _)
clean_old_records(h, t) ==
    LET cutoff == t - window_seconds IN
    IF h # <<>> /\ Head(h).timestamp < cutoff
    THEN clean_old_records(Tail(h), t)
    ELSE h

\* mutant of append_usage: appendleft for append
appendleft_usage(h, t, k) == <<TokenUsage(t, k)>> \o h

\* the append of record_usage
append_usage(h, t, k) == Append(h, TokenUsage(t, k))

\* mutant of wait_time: `>=` for `>` in the comparison with max_tokens
wait_time_ge(h, t, x) ==
    IF SumTokens(clean_old_records(h, t)) + x >= max_tokens /\ h # <<>>
    THEN Max(0, window_seconds - (t - h[1].timestamp) + Buffer)
    ELSE 0

\* mutant of wait_time: the buffer is left out
wait_time_no_buffer(h, t, x) ==
    IF SumTokens(clean_old_records(h, t)) + x > max_tokens /\ h # <<>>
    THEN Max(0, window_seconds - (t - h[1].timestamp))
    ELSE 0

\* mutant of wait_time: the newest record (index -1) is read for the oldest
wait_time_newest(h, t, x) ==
    IF SumTokens(clean_old_records(h, t)) + x > max_tokens /\ h # <<>>
    THEN Max(0, window_seconds - (t - h[Len(h)].timestamp) + Buffer)
    ELSE 0

\* mutant of wait_time: over the cap with nothing recorded, the whole window
\* plus the buffer is waited
wait_time_empty_blocks(h, t, x) ==
    IF SumTokens(clean_old_records(h, t)) + x > max_tokens
    THEN IF h # <<>>
         THEN Max(0, window_seconds - (t - h[1].timestamp) + Buffer)
         ELSE window_seconds + Buffer
    ELSE 0

\* mutant of wait_time: the age of the oldest record is added, not subtracted
wait_time_adds_age(h, t, x) ==
    IF SumTokens(clean_old_records(h, t)) + x > max_tokens /\ h # <<>>
    THEN Max(0, window_seconds + (t - h[1].timestamp) + Buffer)
    ELSE 0

\* what get_wait_time returns on the pruned history h at time t
wait_time(h, t, x) ==
    LET current_usage == SumTokens(clean_old_records(h, t)) IN
    IF current_usage + x > max_tokens /\ h # <<>>
    THEN LET oldest_timestamp == h[1].timestamp
             time_since_oldest == t - oldest_timestamp
         IN  Max(0, window_seconds - time_since_oldest + Buffer)
    ELSE 0

\* mutant of remaining_budget: the max(0, ...) is left out
remaining_budget_signed(h) == max_tokens - SumTokens(h)

\* what get_remaining_budget returns on the pruned history h
remaining_budget(h) == Max(0, max_tokens - SumTokens(h))

\* mutant of Serialize: only the newest record is written
Serialize_last_only(h) ==
    [kind |-> "json",
     usage_history |-> IF h = <<>> THEN <<>>
                       ELSE <<[timestamp |-> h[Len(h)].timestamp,
                               tokens |-> h[Len(h)].tokens]>>]

\* mutant of estimate_iteration_tokens: the base context is left out
estimate_without_base(n) == n * tokens_per_tool

\* what estimate_iteration_tokens(num_tool_calls=n) returns
estimate_iteration_tokens(n) == base_tokens + (n * tokens_per_tool)

\* the JSON document _save_state writes: {"usage_history": [{...}, ...]}
Serialize(h) ==
    [kind |-> "json",
     usage_history |-> [i \in 1..Len(h) |->
                          [timestamp |-> h[i].timestamp, tokens |-> h[i].tokens]]]

\* mutant of Deserialize: the records are loaded with appendleft, newest first
Deserialize_reversed(doc) ==
    [i \in 1..Len(doc.usage_history) |->
        TokenUsage(doc.usage_history[Len(doc.usage_history) + 1 - i]["timestamp"],
                   doc.usage_history[Len(doc.usage_history) + 1 - i]["tokens"])]

\* the deque _load_state builds from a parsed document
Deserialize(doc) ==
    [i \in 1..Len(doc.usage_history) |->
        TokenUsage(doc.usage_history[i]["timestamp"], doc.usage_history[i]["tokens"])]

NoFile == [kind |-> "absent", usage_history |-> <<>>]
Garbage == [kind |-> "corrupt", usage_history |-> <<>>]

\* _save_state: the file after a save of h that ends as `outcome`
\*   "ok"   the document is written
\*   "fail" mkdir or open failed: the file is as it was
\*   "torn" the write failed after the file was truncated: no valid JSON
save_state(h, outcome) ==
    CASE outcome = "ok" -> Serialize(h)
      [] outcome = "torn" -> Garbage
      [] OTHER -> file

\* A snapshot somebody else wrote may hold JSON values that are no numbers
\* (a string, null).  Such a value is written NotNumber; the numbers of a
\* snapshot are >= 0.
NotNumber == -1
IsNumber(v) == v # NotNumber

\* record["timestamp"] and record["tokens"] raise no KeyError on entry e
has_fields(e) == {"timestamp", "tokens"} \subseteq DOMAIN e

\* _clean_old_records at time t raises TypeError: the loop compares a
\* timestamp that is no number with the cutoff
RECURSIVE clean_raises(_, _)
clean_raises(h, t) ==
    IF h = <<>> THEN FALSE
    ELSE IF ~IsNumber(Head(h).timestamp) THEN TRUE
    ELSE IF Head(h).timestamp < t - window_seconds THEN clean_raises(Tail(h), t)
    ELSE FALSE

\* the records _clean_old_records had popped when it stopped or raised
RECURSIVE clean_partial(_, _)
clean_partial(h, t) ==
    IF h # <<>> /\ IsNumber(Head(h).timestamp)
               /\ Head(h).timestamp < t - window_seconds
    THEN clean_partial(Tail(h), t)
    ELSE h

\* the try block of _load_state raises at time t on file f: the content is
\* no JSON, an entry lacks a field, or the pruning raises
load_raises(f, t) ==
    \/ f.kind # "json"
    \/ \E i \in 1..Len(f.usage_history) : ~has_fields(f.usage_history[i])
    \/ clean_raises([i \in 1..Len(f.usage_history) |->
                        [timestamp |-> f.usage_history[i]["timestamp"]]], t)

\* mutant of load_state: the snapshot is never read, the tracker starts empty
load_state_fresh(f, t) == <<>>

\* mutant of load_state: the loaded records are not pruned
load_state_unpruned(f, t) ==
    IF f.kind = "json" THEN Deserialize(f) ELSE <<>>

\* _load_state at time t: the history a new tracker starts with
load_state(f, t) ==
    IF load_raises(f, t) THEN <<>> ELSE clean_old_records(Deserialize(f), t)

\* the loop record of a process in which no agent loop is running
NoLoop == [prog |-> "none"]

\* state.md as markdown_to_state sees it: whether "## Task" has text, and the
\* digits after "## Iteration\n" (NotNumber: the pattern finds none)
StateText(task, iteration) ==
    [kind |-> "text", task |-> task, iteration |-> iteration]

\* there is no state.md; state.md cannot be read or decoded
NoState == [kind |-> "absent", task |-> FALSE, iteration |-> NotNumber]
UnreadableState == [kind |-> "unreadable", task |-> FALSE, iteration |-> NotNumber]

\* a RalphState, of which the loop uses the iteration, and None
RalphState(n) == [iteration |-> n]
None == [none |-> TRUE]

\* create_initial_state(task)
create_initial_state == RalphState(1)

\* state_to_markdown: the text write_state writes for a state with a task
state_to_markdown(state) == StateText(TRUE, state.iteration)

\* mutant of markdown_to_state: the iteration defaults to 0
markdown_to_state_from_zero(content) ==
    RalphState(IF IsNumber(content.iteration) THEN content.iteration ELSE 0)

\* markdown_to_state, which raises ValueError when no task is found:
\* int(iteration_match.group(1)) if iteration_match else 1
markdown_to_state(content) ==
    RalphState(IF IsNumber(content.iteration) THEN content.iteration ELSE 1)

\* read_state: None if state.md does not exist or on OSError / ValueError
read_state(f) ==
    IF f.kind = "text" /\ f.task THEN markdown_to_state(f) ELSE None

\* no second process uses the persist_path
NoPeer == [running |-> FALSE]

\* no exception is being handled
NoException == {"-"}

\* the loop record of a program that has just been called: nothing is set up
\* and nothing has happened
NewLoop ==
    [prog |-> "none", pc |-> "validate",
     \* RalphConfig and the workspace
     max_iterations |-> 0, max_todos_per_iteration |-> 1,
     workspace_exists |-> FALSE, state_iteration |-> 0, tracker_built |-> FALSE,
     \* the loop: iteration, the shutdown flag, last_iteration_start_time
     iteration |-> 0, shutdown |-> FALSE, last_iteration_start_time |-> <<>>,
     \* the iteration under way: wait_time and the sleeps, range(max_retries)
     wait |-> 0, slept |-> 0, gap |-> 0, attempt |-> 0,
     \* what has happened: the iteration the loop began at, the units handed
     \* to the agent, where a shutdown request met the loop, and in the
     \* iteration under way the calls made, the usage events and tokens the
     \* agent reported, Len(log) at the handoff, the exception caught
     start_iteration |-> 0, units |-> 0, requested_during |-> "",
     estimated |-> FALSE, wait_checked |-> FALSE, events |-> 0, reported |-> 0,
     log_at_handoff |-> 0, failure |-> "",
     \* the words of str(e) while an except clause of the iteration holds e
     exc |-> NoException,
     \* the file .ralph_last_iteration_time of the workspace
     time_file |-> [kind |-> "absent", t |-> 0],
     \* the file state.md of the workspace
     state_file |-> NoState]

\* ------------------------------------------------------------------- Init
Init ==
    /\ now = 0
    /\ max_tokens = CapOf(MaxLimit, SafetyMarginPct)
    /\ window_seconds \in {MaxWindow - 1, MaxWindow}
    /\ persist_path \in BOOLEAN
    /\ usage_history = <<>>
    /\ file = NoFile
    /\ lastOp = "init"
    /\ arg = 0
    /\ ret = 0
    /\ saved = "none"
    /\ synced = FALSE
    /\ log = <<>>
    /\ loop = NoLoop
    /\ peer = NoPeer

\* ---------------------------------------------------------------- actions
\* the clock advances by one second
Tick ==
    /\ now < MaxTime
    /\ now' = now + 1
    /\ lastOp' = "tick"
    /\ arg' = 0
    /\ ret' = 0
    /\ UNCHANGED <<config, usage_history, file, log>>
    /\ saved' = "none"
    /\ UNCHANGED synced
    /\ UNCHANGED <<loop, peer>>

\* mutant of get_usage_in_window: the query writes the snapshot when a
\* persist_path is set
get_usage_in_window_saves ==
    /\ usage_history' = clean_old_records(usage_history, now)
    /\ ret' = SumTokens(usage_history')
    /\ lastOp' = "get_usage_in_window"
    /\ arg' = 0
    /\ file' = IF persist_path THEN save_state(usage_history', "ok") ELSE file
    /\ UNCHANGED <<now, config, log>>
    /\ saved' = "none"
    /\ UNCHANGED synced
    /\ UNCHANGED <<loop, peer>>

\* TokenBudgetTracker.get_usage_in_window
get_usage_in_window ==
    /\ usage_history' = clean_old_records(usage_history, now)
    /\ ret' = SumTokens(usage_history')
    /\ lastOp' = "get_usage_in_window"
    /\ arg' = 0
    /\ UNCHANGED <<now, config, file, log>>
    /\ saved' = "none"
    /\ UNCHANGED synced
    /\ UNCHANGED <<loop, peer>>

\* mutant of record_usage: the state is saved before the stale records are
\* removed
record_usage_save_first(k, outcome) ==
    /\ Len(log) < MaxRecords
    /\ outcome = "none" <=> ~persist_path
    /\ usage_history' = clean_old_records(append_usage(usage_history, now, k), now)
    /\ file' = IF persist_path
               THEN save_state(append_usage(usage_history, now, k), outcome)
               ELSE file
    /\ saved' = outcome
    /\ synced' = (outcome = "ok")
    /\ log' = Append(log, TokenUsage(now, k))
    /\ lastOp' = "record_usage"
    /\ arg' = k
    /\ ret' = 0
    /\ UNCHANGED <<now, config>>
    /\ UNCHANGED <<loop, peer>>

\* mutant of record_usage: _save_state has no try/except, a failed save
\* raises out of record_usage
record_usage_save_raises(k, outcome) ==
    /\ Len(log) < MaxRecords
    /\ outcome = "none" <=> ~persist_path
    /\ usage_history' = clean_old_records(append_usage(usage_history, now, k), now)
    /\ file' = IF persist_path THEN save_state(usage_history', outcome) ELSE file
    /\ saved' = outcome
    /\ synced' = (outcome = "ok")
    /\ log' = Append(log, TokenUsage(now, k))
    /\ lastOp' = IF outcome \in {"fail", "torn"} THEN "raised" ELSE "record_usage"
    /\ arg' = k
    /\ ret' = 0
    /\ UNCHANGED <<now, config>>
    /\ UNCHANGED <<loop, peer>>

\* TokenBudgetTracker.record_usage(k), its save ending as `outcome`
record_usage(k, outcome) ==
    /\ Len(log) < MaxRecords
    /\ outcome = "none" <=> ~persist_path
    /\ usage_history' = clean_old_records(append_usage(usage_history, now, k), now)
    /\ file' = IF persist_path THEN save_state(usage_history', outcome) ELSE file
    /\ saved' = outcome
    /\ synced' = (outcome = "ok")
    /\ log' = Append(log, TokenUsage(now, k))
    /\ lastOp' = "record_usage"
    /\ arg' = k
    /\ ret' = 0
    /\ UNCHANGED <<now, config>>
    /\ UNCHANGED <<loop, peer>>

\* TokenBudgetTracker.get_wait_time(x)
get_wait_time(x) ==
    /\ usage_history' = clean_old_records(usage_history, now)
    /\ ret' = wait_time(usage_history', now, x)
    /\ lastOp' = "get_wait_time"
    /\ arg' = x
    /\ UNCHANGED <<now, config, file, log>>
    /\ saved' = "none"
    /\ UNCHANGED synced
    /\ UNCHANGED <<loop, peer>>

\* TokenBudgetTracker.get_remaining_budget
get_remaining_budget ==
    /\ usage_history' = clean_old_records(usage_history, now)
    /\ ret' = remaining_budget(usage_history')
    /\ lastOp' = "get_remaining_budget"
    /\ arg' = 0
    /\ UNCHANGED <<now, config, file, log>>
    /\ saved' = "none"
    /\ UNCHANGED synced
    /\ UNCHANGED <<loop, peer>>

\* TokenBudgetTracker.estimate_iteration_tokens(n), called on the tracker
call_estimate_iteration_tokens(n) ==
    /\ ret' = estimate_iteration_tokens(n)
    /\ lastOp' = "estimate_iteration_tokens"
    /\ arg' = n
    /\ saved' = "none"
    /\ UNCHANGED <<now, config, usage_history, file, synced, log>>
    /\ UNCHANGED <<loop, peer>>

\* execute_task: if wait_time > 0: time.sleep(wait_time)
pacing_sleep ==
    /\ lastOp = "get_wait_time"
    /\ ret > 0
    /\ now + ret <= MaxTime
    /\ now' = now + ret
    /\ lastOp' = "sleep"
    /\ UNCHANGED <<config, usage_history, file, arg, ret, log>>
    /\ saved' = "none"
    /\ UNCHANGED synced
    /\ UNCHANGED <<loop, peer>>

\* TokenBudgetTracker.__init__ in a new process, with the same arguments
tracker_init ==
    /\ usage_history' = IF persist_path /\ file.kind # "absent"
                        THEN load_state(file, now)
                        ELSE <<>>
    /\ log' = IF persist_path /\ ~load_raises(file, now)
              THEN Deserialize(file)
              ELSE <<>>
    /\ lastOp' = "init"
    /\ arg' = 0
    /\ ret' = 0
    /\ saved' = "none"
    /\ synced' = (persist_path /\ file.kind = "json")
    /\ UNCHANGED <<now, config, file>>
    /\ UNCHANGED <<loop, peer>>

Next ==
    \/ Tick
    \/ get_usage_in_window
    \/ \E k \in 0..MaxTok, outcome \in {"none", "ok", "fail", "torn"} :
          record_usage(k, outcome)
    \/ \E x \in 0..MaxEstimate : get_wait_time(x)
    \/ get_remaining_budget
    \/ \E n \in 0..MaxToolCalls : call_estimate_iteration_tokens(n)
    \/ pacing_sleep
    \/ tracker_init

Spec == Init /\ [][Next]_vars

\* ------------------------------------------- loading any snapshot at all
\* the entries a snapshot read at time t may hold: well-formed ones, entries
\* with a value that is no number, entries that lack a field
SnapshotEntries(t) ==
    [timestamp : (0..t) \cup {NotNumber}, tokens : (0..MaxTok) \cup {NotNumber}]
        \cup [timestamp : (0..t) \cup {NotNumber}]
        \cup [tokens : (0..MaxTok) \cup {NotNumber}]

\* the snapshots found at time t: no file, no JSON, or a list of at most two
\* entries whose numeric timestamps are in chronological order
Snapshots(t) ==
    {NoFile, Garbage} \cup
    {[kind |-> "json", usage_history |-> es] :
        es \in {e \in UNION {[1..n -> SnapshotEntries(t)] : n \in 0..2} :
                   \A i, j \in DOMAIN e :
                      (/\ i < j
                       /\ "timestamp" \in DOMAIN e[i] /\ IsNumber(e[i]["timestamp"])
                       /\ "timestamp" \in DOMAIN e[j] /\ IsNumber(e[j]["timestamp"]))
                          => e[i]["timestamp"] <= e[j]["timestamp"]}}

\* a process about to build its tracker on a target that holds any snapshot
LoadInit ==
    /\ now \in 0..MaxTime
    /\ max_tokens = CapOf(MaxLimit, SafetyMarginPct)
    /\ window_seconds \in {MaxWindow - 1, MaxWindow}
    /\ persist_path = TRUE
    /\ usage_history = <<>>
    /\ file \in Snapshots(now)
    /\ lastOp = "start"
    /\ arg = 0
    /\ ret = 0
    /\ saved = "none"
    /\ synced = FALSE
    /\ log = <<>>
    /\ loop = NoLoop
    /\ peer = NoPeer

\* get_usage_in_window raises TypeError on history h at time t: the pruning
\* raises, or sum() meets tokens that are no number
usage_raises(h, t) ==
    \/ clean_raises(h, t)
    \/ \E i \in 1..Len(clean_partial(h, t)) : ~IsNumber(clean_partial(h, t)[i].tokens)

\* ralph_loop: current_usage = token_tracker.get_usage_in_window(), the first
\* call on the tracker just built
startup_usage_query ==
    /\ lastOp = "init"
    /\ usage_history' = clean_partial(usage_history, now)
    /\ IF usage_raises(usage_history, now)
       THEN lastOp' = "raised" /\ ret' = 0
       ELSE lastOp' = "get_usage_in_window" /\ ret' = SumTokens(usage_history')
    /\ arg' = 0
    /\ saved' = "none"
    /\ UNCHANGED <<now, config, file, synced, log>>
    /\ UNCHANGED <<loop, peer>>

LoadNext ==
    \/ tracker_init
    \/ startup_usage_query

LoadSpec == LoadInit /\ [][LoadNext]_vars

\* ------------------------------------------------------------------ claims
\* the records of s that are inside the window at query time q
InWindow(r, q) == r.timestamp >= q - window_seconds
WindowOf(s, q) == SelectSeq(s, LAMBDA r : InWindow(r, q))

\* what get_usage_in_window() returns when called in the current state
UsageNow == SumTokens(clean_old_records(usage_history, now))

PruneOps == {"get_usage_in_window", "record_usage", "get_wait_time",
             "get_remaining_budget", "init"}

\* C1: get_usage_in_window() returns exactly the sum of the tokens of the
\* records given to the tracker whose timestamp is >= now - window_seconds.
C1_UsageIsWindowSum ==
    lastOp = "get_usage_in_window" => ret = SumTokens(WindowOf(log, now))

\* C1 witness: a query that counts a record and leaves out a stale one that
\* carries tokens.
C1_Witness ==
    /\ lastOp = "get_usage_in_window"
    /\ ret > 0
    /\ \E i \in 1..Len(log) : ~InWindow(log[i], now) /\ log[i].tokens > 0

\* C2: right after any pruning operation (a read, record_usage, or the load
\* of a snapshot at construction) every record of usage_history has
\* timestamp >= now - window_seconds.
C2_PrunedHistoryFresh ==
    lastOp \in PruneOps =>
        \A i \in 1..Len(usage_history) : usage_history[i].timestamp >= now - window_seconds

\* C2 witness: a tracker just built from a snapshot that held a stale record
\* and a record still inside the window.
C2_Witness ==
    /\ lastOp = "init"
    /\ usage_history # <<>>
    /\ \E i \in 1..Len(file.usage_history) :
          file.usage_history[i]["timestamp"] < now - window_seconds

\* C3: get_wait_time(x) returns 0 whenever get_usage_in_window() + x <= cap.
C3_NoWaitWithinCap ==
    (lastOp = "get_wait_time" /\ UsageNow + arg <= max_tokens) => ret = 0

\* C3 witness: a call on a non-empty history whose usage plus the estimate
\* is exactly the cap.
C3_Witness ==
    /\ lastOp = "get_wait_time"
    /\ usage_history # <<>>
    /\ UsageNow > 0
    /\ UsageNow + arg = max_tokens

\* C4: get_wait_time(x) returns a value > 0 whenever
\* get_usage_in_window() + x > cap and the pruned history is non-empty.
C4_WaitPositiveOverCap ==
    (lastOp = "get_wait_time" /\ UsageNow + arg > max_tokens /\ usage_history # <<>>)
        => ret > 0

\* C4 witness: a call over the cap whose oldest record is exactly
\* window_seconds old, so that only the buffer is left to wait.
C4_Witness ==
    /\ lastOp = "get_wait_time"
    /\ UsageNow + arg > max_tokens
    /\ usage_history # <<>>
    /\ now - usage_history[1].timestamp = window_seconds

\* C5: whenever get_wait_time(x) returned w > 0 and exactly w seconds went by
\* with no other call, get_wait_time(x) called again returns 0.
C5_SleepThenNoWait ==
    [][(lastOp = "sleep" /\ lastOp' = "get_wait_time" /\ arg' = arg) => ret' = 0]_vars

\* C6: over the cap and with a non-empty history, get_wait_time(x) returns
\* max(0, window_seconds - (now - t0) + 2), t0 the timestamp of the oldest
\* surviving record, whatever x and the other records are.
C6_WaitFormula ==
    (lastOp = "get_wait_time" /\ UsageNow + arg > max_tokens /\ usage_history # <<>>)
        => ret = Max(0, window_seconds - (now - usage_history[1].timestamp) + 2)

\* C6 witness: a call over the cap on a history of two records recorded at
\* different times, some time after the older one.
C6_Witness ==
    /\ lastOp = "get_wait_time"
    /\ UsageNow + arg > max_tokens
    /\ Len(usage_history) >= 2
    /\ usage_history[1].timestamp < usage_history[Len(usage_history)].timestamp
    /\ ret < window_seconds + 2

\* C7: get_remaining_budget() is never negative; it is cap - usage when that
\* is >= 0 and 0 otherwise.
C7_RemainingBudget ==
    lastOp = "get_remaining_budget" =>
        /\ ret >= 0
        /\ ret = IF max_tokens - UsageNow >= 0 THEN max_tokens - UsageNow ELSE 0

\* C7 witness: a call made while the usage in the window is above the cap.
C7_Witness ==
    /\ lastOp = "get_remaining_budget"
    /\ UsageNow > max_tokens

\* what a record inserted at time r.timestamp adds to a query made at time q
Contribution(r, q) == IF q <= r.timestamp + window_seconds THEN r.tokens ELSE 0

RECURSIVE SumContributions(_, _)
SumContributions(s, q) ==
    IF s = <<>> THEN 0 ELSE Contribution(Head(s), q) + SumContributions(Tail(s), q)

\* C8: a record inserted at time t with k tokens adds k to every query made
\* at a time <= t + window_seconds (t + window_seconds included) and nothing
\* to a later one: the query returns the sum of these contributions and
\* keeps exactly the records that still contribute.
C8_PruningBoundary ==
    lastOp = "get_usage_in_window" =>
        /\ ret = SumContributions(log, now)
        /\ usage_history = SelectSeq(log, LAMBDA r : now <= r.timestamp + window_seconds)

\* C8 witness: a query made exactly window_seconds after a record with
\* tokens was inserted, and more than window_seconds after another one.
C8_Witness ==
    /\ lastOp = "get_usage_in_window"
    /\ \E i \in 1..Len(log) : log[i].tokens > 0 /\ now = log[i].timestamp + window_seconds
    /\ \E i \in 1..Len(log) : log[i].tokens > 0 /\ now > log[i].timestamp + window_seconds

\* C9: record_usage(k) puts one record (now, k) at the back of the history;
\* the rest of the new history is the old one without a prefix of stale
\* records.
C9_RecordAppendsOne ==
    [][lastOp' = "record_usage" =>
         \E n \in 0..Len(usage_history) :
            /\ usage_history' = Append(SubSeq(usage_history, n + 1, Len(usage_history)),
                                       [timestamp |-> now', tokens |-> arg'])
            /\ Len(usage_history') = Len(usage_history) + 1 - n
            /\ \A i \in 1..n : usage_history[i].timestamp < now' - window_seconds]_vars

\* C9 witness: a record_usage call that left two records in the history
\* after a stale one had been evicted.
C9_Witness ==
    /\ lastOp = "record_usage"
    /\ Len(usage_history) >= 2
    /\ Len(log) > Len(usage_history)

\* C10: with a persistence target, after a record_usage call whose save
\* succeeded the snapshot holds the records of the pruned in-memory history,
\* in the same order.
C10_SnapshotIsHistory ==
    (lastOp = "record_usage" /\ persist_path /\ saved = "ok") =>
        /\ file.kind = "json"
        /\ Len(file.usage_history) = Len(usage_history)
        /\ \A i \in 1..Len(usage_history) :
              /\ file.usage_history[i]["timestamp"] = usage_history[i].timestamp
              /\ file.usage_history[i]["tokens"] = usage_history[i].tokens

\* C10 witness: a saved record_usage call after which the history holds a
\* record but no longer every record the tracker was given.
C10_Witness ==
    /\ lastOp = "record_usage"
    /\ persist_path
    /\ saved = "ok"
    /\ usage_history # <<>>
    /\ Len(log) > Len(usage_history)

\* C11: a tracker built from the snapshot another tracker saved holds the
\* records that tracker holds at that time (same timestamps, tokens and
\* order) and reports the same usage in the window.
C11_RoundTrip ==
    [][(lastOp' = "init" /\ persist_path /\ synced) =>
         /\ usage_history' = clean_old_records(usage_history, now)
         /\ SumTokens(usage_history') = UsageNow]_vars

\* C11 witness: a tracker just built, some time after the last save, from a
\* snapshot in step with its writer, holding two records.
C11_Witness ==
    /\ lastOp = "init"
    /\ synced
    /\ Len(usage_history) >= 2
    /\ now > usage_history[Len(usage_history)].timestamp
    /\ UsageNow > 0

\* C12: a tracker built on a target that holds data holds, right after
\* construction, exactly the loaded records that are still inside the window:
\* the older ones are gone and get_usage_in_window() counts the others only.
C12_LoadPrunesAtOnce ==
    (lastOp = "init" /\ persist_path /\ file.kind = "json") =>
        /\ usage_history = WindowOf(Deserialize(file), now)
        /\ UsageNow = SumTokens(WindowOf(Deserialize(file), now))

\* C12 witness: a tracker just built from a snapshot with a record twice the
\* window old (120 s for a window of 60 s) and a record inside the window,
\* both with tokens.
C12_Witness ==
    /\ lastOp = "init"
    /\ persist_path
    /\ file.kind = "json"
    /\ \E i \in 1..Len(file.usage_history) :
          /\ now - file.usage_history[i]["timestamp"] = 2 * window_seconds
          /\ file.usage_history[i]["tokens"] > 0
    /\ UsageNow > 0

\* C14: a record_usage call whose save fails returns normally and leaves the
\* tracker as a successful save would: the new record is the last of the
\* history, which holds every record of the window, and it is counted.
C14_SaveFailureHarmless ==
    saved \in {"fail", "torn"} =>
        /\ lastOp = "record_usage"
        /\ usage_history # <<>>
        /\ usage_history[Len(usage_history)] = [timestamp |-> now, tokens |-> arg]
        /\ usage_history = WindowOf(log, now)
        /\ UsageNow = SumTokens(WindowOf(log, now))

\* C14 witness: a record_usage call with tokens whose write failed midway,
\* made when the history already held a record.
C14_Witness ==
    /\ saved = "torn"
    /\ arg > 0
    /\ Len(usage_history) >= 2
    /\ file.kind = "corrupt"

\* C15: on an empty pruned history get_wait_time(x) returns 0 for every
\* estimate x, one above the cap included.
C15_EmptyNeverBlocks ==
    (lastOp = "get_wait_time" /\ usage_history = <<>>) => ret = 0

\* C15 witness: a call with an estimate above the cap made after every
\* record has left the window.
C15_Witness ==
    /\ lastOp = "get_wait_time"
    /\ usage_history = <<>>
    /\ arg > max_tokens
    /\ log # <<>>

\* C16: a get_usage_in_window() call made right after another one, with no
\* record_usage and no time in between, returns the same value and leaves
\* the history as it is.
C16_QueryIdempotent ==
    lastOp = "get_usage_in_window" =>
        /\ clean_old_records(usage_history, now) = usage_history
        /\ SumTokens(clean_old_records(usage_history, now)) = ret

\* C16 witness: a query that evicted a record and kept one with tokens.
C16_Witness ==
    /\ lastOp = "get_usage_in_window"
    /\ ret > 0
    /\ Len(log) > Len(usage_history)

\* C19: in every reachable state the history is ordered by non-decreasing
\* timestamp.
C19_HistoryChronological ==
    \A i, j \in 1..Len(usage_history) :
        i < j => usage_history[i].timestamp <= usage_history[j].timestamp

\* C19 witness: a history of records of different times, just loaded from a
\* snapshot.
C19_Witness ==
    /\ lastOp = "init"
    /\ Len(usage_history) >= 2
    /\ usage_history[1].timestamp < usage_history[Len(usage_history)].timestamp

\* C17: estimate_iteration_tokens(n) returns 3000 + n * 2000 whatever the
\* history and the time are, and changes nothing of the tracker.
C17_EstimateIsPure ==
    [][lastOp' = "estimate_iteration_tokens" =>
         /\ ret' = 3000 + arg' * 2000
         /\ UNCHANGED <<now, max_tokens, window_seconds, persist_path,
                        usage_history, file, log>>]_vars

\* C17 witness: an estimate for at least one tool call asked of a tracker that
\* holds records, some time after construction.
C17_Witness ==
    /\ lastOp = "estimate_iteration_tokens"
    /\ arg > 0
    /\ usage_history # <<>>
    /\ now > 0

\* ------------------------------------------------- the loops on the agent
\* the programs that drive the agent: ralph_minimal of src/main.py, ralph_loop
\* of initial_implementation/ralph_loop.py and ralph_minimal of
\* ralph_minimal/main_minimal.py
Programs == {"main", "ralph_loop", "main_minimal"}

\* iterations a behaviour of the model goes through, at most
MaxIterations == 2

\* usage events one unit of work of src/main.py reports, at most
MaxEvents == 1

\* the token figures a unit of work reports: none, as much as one iteration is
\* estimated to take, or the whole cap
UnitTokens == {0, estimate_iteration_tokens(8), max_tokens}

\* the seconds a step of the agent takes: none, or a whole window
UnitSeconds == {0, window_seconds}

\* the kinds of exception the agent raises: a provider rate-limit error (its
\* message holds "rate" and "limit", or "429"), or any other Exception
ErrorKinds == {"rate_limit", "error"}

\* the messages of the exceptions the agent raises, each as the set of the
\* words "rate", "limit" and "429" that str(e) holds
ErrorMessages == {{"rate", "limit"}, {"429"}, {"rate"}, {"limit"}, {}}

\* "rate" in error_str and "limit" in error_str or "429" in str(e)
is_rate_limit_error(msg) ==
    ("rate" \in msg /\ "limit" \in msg) \/ "429" \in msg

\* a program called with its task and its RalphConfig.  The workspace holds a
\* state.md an earlier run wrote (at iteration i) or there is no workspace
\* yet (i = 0), and no timing file
LoopInit ==
    /\ now = 0
    /\ loop \in {[NewLoop EXCEPT !.prog = p,
                                !.max_iterations = n,
                                !.max_todos_per_iteration = m,
                                !.state_file =
                                    IF i = 0 THEN NoState
                                    ELSE state_to_markdown(RalphState(i)),
                                !.workspace_exists = (i > 0)] :
                    p \in Programs, n \in -1..MaxIterations, m \in 0..1,
                    i \in 0..MaxIterations}
    /\ peer = NoPeer
    /\ max_tokens = 0
    /\ window_seconds = 60
    /\ persist_path = FALSE
    /\ usage_history = <<>>
    /\ file = NoFile
    /\ lastOp = "start"
    /\ arg = 0
    /\ ret = 0
    /\ saved = "none"
    /\ synced = FALSE
    /\ log = <<>>

\* mutant of validate: the workspace is made before the configuration is
\* looked at
validate_after_workspace ==
    /\ loop.pc = "validate"
    /\ loop' = [loop EXCEPT !.pc = IF \/ loop.max_todos_per_iteration < 1
                                      \/ loop.max_iterations < 0
                                   THEN "config_error"
                                   ELSE "ensure_workspace",
                            !.workspace_exists = TRUE]
    /\ UNCHANGED <<now, config, usage_history, file, lastOp, arg, ret, saved,
                   synced, log>>
    /\ UNCHANGED peer

\* RalphConfig.validate, the first call of the program that can fail
validate ==
    /\ loop.pc = "validate"
    /\ loop' = [loop EXCEPT !.pc = IF \/ loop.max_todos_per_iteration < 1
                                      \/ loop.max_iterations < 0
                                   THEN "config_error"
                                   ELSE "ensure_workspace"]
    /\ UNCHANGED <<now, config, usage_history, file, lastOp, arg, ret, saved,
                   synced, log>>
    /\ UNCHANGED peer

\* RalphConfig.ensure_workspace, with auto_create_workspace at its default
ensure_workspace ==
    /\ loop.pc = "ensure_workspace"
    /\ loop' = [loop EXCEPT !.pc = "read_state", !.workspace_exists = TRUE]
    /\ UNCHANGED <<now, config, usage_history, file, lastOp, arg, ret, saved,
                   synced, log>>
    /\ UNCHANGED peer

\* state = read_state(...); if state is None: create_initial_state and
\* write_state
load_or_create_state ==
    /\ loop.pc = "read_state"
    /\ LET state == IF read_state(loop.state_file) = None
                    THEN create_initial_state
                    ELSE read_state(loop.state_file)
       IN  loop' = [loop EXCEPT
                      !.pc = "tracker",
                      !.state_iteration = state.iteration,
                      !.state_file = IF read_state(loop.state_file) = None
                                     THEN state_to_markdown(state)
                                     ELSE @]
    /\ UNCHANGED <<now, config, usage_history, file, lastOp, arg, ret, saved,
                   synced, log>>
    /\ UNCHANGED peer

\* mutant of build_tracker: the timing file is not read
build_tracker_forgets_time ==
    /\ loop.pc = "tracker"
    /\ max_tokens' = CASE loop.prog = "ralph_loop" -> CapOf(30000, 85)
                       [] loop.prog = "main" -> CapOf(150000, SafetyMarginPct)
                       [] OTHER -> max_tokens
    /\ persist_path' = (loop.prog = "ralph_loop")
    /\ lastOp' = CASE loop.prog = "ralph_loop" -> "get_usage_in_window"
                   [] loop.prog = "main" -> "init"
                   [] OTHER -> lastOp
    /\ loop' = [loop EXCEPT !.pc = "top",
                            !.tracker_built = (loop.prog # "main_minimal"),
                            !.iteration = loop.state_iteration,
                            !.start_iteration = loop.state_iteration]
    /\ UNCHANGED <<now, window_seconds, usage_history, file, arg, ret, saved,
                   synced, log>>
    /\ UNCHANGED peer

\* TokenBudgetTracker(...) and iteration = state.iteration.  main builds its
\* tracker with (150000, 0.9), ralph_loop with (30000, 0.85) and a
\* persist_path, and asks get_usage_in_window() at once; main_minimal builds
\* no tracker, its tracker fields are never used.  ralph_loop then reads
\* float(iteration_time_file.read_text()) if the file exists, and keeps None
\* on ValueError or OSError
build_tracker ==
    /\ loop.pc = "tracker"
    /\ max_tokens' = CASE loop.prog = "ralph_loop" -> CapOf(30000, 85)
                       [] loop.prog = "main" -> CapOf(150000, SafetyMarginPct)
                       [] OTHER -> max_tokens
    /\ persist_path' = (loop.prog = "ralph_loop")
    /\ lastOp' = CASE loop.prog = "ralph_loop" -> "get_usage_in_window"
                   [] loop.prog = "main" -> "init"
                   [] OTHER -> lastOp
    /\ loop' = [loop EXCEPT !.pc = "top",
                            !.tracker_built = (loop.prog # "main_minimal"),
                            !.iteration = loop.state_iteration,
                            !.start_iteration = loop.state_iteration,
                            !.last_iteration_start_time =
                                IF loop.prog = "ralph_loop"
                                   /\ loop.time_file.kind = "time"
                                THEN <<loop.time_file.t>>
                                ELSE <<>>]
    /\ UNCHANGED <<now, window_seconds, usage_history, file, arg, ret, saved,
                   synced, log>>
    /\ UNCHANGED peer

\* the part of the iteration a shutdown request arrives in
PartOf(pc) ==
    CASE pc \in {"sleep", "gap_sleep"} -> "pacing"
      [] pc \in {"running", "backoff"} -> "unit"
      [] OTHER -> "other"

\* mutant of signal_handler: the request cancels the unit in flight
signal_handler_cancels ==
    /\ loop.pc \notin {"config_error", "exited"}
    /\ ~loop.shutdown
    /\ loop' = [loop EXCEPT !.shutdown = TRUE,
                            !.requested_during = PartOf(loop.pc),
                            !.pc = IF loop.pc = "running" THEN "done" ELSE @]
    /\ UNCHANGED <<now, config, usage_history, file, lastOp, arg, ret, saved,
                   synced, log>>
    /\ UNCHANGED peer

\* _signal_handler / signal_handler: a shutdown request sets the flag.
\* requested_during remembers where the loop was
signal_handler ==
    /\ loop.pc \notin {"config_error", "exited"}
    /\ ~loop.shutdown
    /\ loop' = [loop EXCEPT !.shutdown = TRUE,
                            !.requested_during = PartOf(loop.pc)]
    /\ UNCHANGED <<now, config, usage_history, file, lastOp, arg, ret, saved,
                   synced, log>>
    /\ UNCHANGED peer

\* the fields of one iteration, as they are when the iteration begins
BeginIteration(l) ==
    [l EXCEPT !.estimated = FALSE, !.wait_checked = FALSE, !.wait = 0,
              !.slept = 0, !.gap = 0, !.events = 0, !.attempt = 0,
              !.failure = "", !.reported = 0]

\* mutant of loop_top: the max_iterations check is left out
loop_top_no_cap ==
    /\ loop.pc = "top"
    /\ \/ loop.shutdown
       \/ loop.iteration <= MaxIterations
    /\ loop' = IF loop.shutdown
               THEN [loop EXCEPT !.pc = "done"]
               ELSE [BeginIteration(loop) EXCEPT
                        !.pc = CASE loop.prog = "main" -> "execute_task"
                                 [] loop.prog = "ralph_loop" -> "gap"
                                 [] OTHER -> "invoke"]
    /\ UNCHANGED <<now, config, usage_history, file, lastOp, arg, ret, saved,
                   synced, log>>
    /\ UNCHANGED peer

\* mutant of loop_top: the cap lets one iteration too many through
loop_top_one_more ==
    /\ loop.pc = "top"
    /\ \/ loop.shutdown
       \/ (loop.max_iterations > 0 /\ loop.iteration > loop.max_iterations + 1)
       \/ loop.iteration <= MaxIterations + 1
    /\ loop' = IF loop.shutdown
                  \/ (loop.max_iterations > 0
                      /\ loop.iteration > loop.max_iterations + 1)
               THEN [loop EXCEPT !.pc = "done"]
               ELSE [BeginIteration(loop) EXCEPT
                        !.pc = CASE loop.prog = "main" -> "execute_task"
                                 [] loop.prog = "ralph_loop" -> "gap"
                                 [] OTHER -> "invoke"]
    /\ UNCHANGED <<now, config, usage_history, file, lastOp, arg, ret, saved,
                   synced, log>>
    /\ UNCHANGED peer

\* while True: the shutdown check and the max_iterations check, then the
\* iteration begins.  The model follows the loop up to iteration
\* MaxIterations
loop_top ==
    /\ loop.pc = "top"
    /\ \/ loop.shutdown
       \/ (loop.max_iterations > 0 /\ loop.iteration > loop.max_iterations)
       \/ loop.iteration <= MaxIterations
    /\ loop' = IF loop.shutdown
                  \/ (loop.max_iterations > 0 /\ loop.iteration > loop.max_iterations)
               THEN [loop EXCEPT !.pc = "done"]
               ELSE [BeginIteration(loop) EXCEPT
                        !.pc = CASE loop.prog = "main" -> "execute_task"
                                 [] loop.prog = "ralph_loop" -> "gap"
                                 [] OTHER -> "invoke"]
    /\ UNCHANGED <<now, config, usage_history, file, lastOp, arg, ret, saved,
                   synced, log>>
    /\ UNCHANGED peer

\* ralph_loop: if the last iteration started less than 65 s ago, the rest of
\* the 65 s is to be slept
iteration_gap ==
    /\ loop.pc = "gap"
    /\ loop' = IF loop.last_iteration_start_time # <<>>
                  /\ now - loop.last_iteration_start_time[1] < 65
               THEN [loop EXCEPT !.pc = "gap_sleep",
                                 !.gap = 65 - (now - loop.last_iteration_start_time[1])]
               ELSE [loop EXCEPT !.pc = "start"]
    /\ UNCHANGED <<now, config, usage_history, file, lastOp, arg, ret, saved,
                   synced, log>>
    /\ UNCHANGED peer

\* ralph_loop: await asyncio.sleep(wait_time)
gap_sleep ==
    /\ loop.pc = "gap_sleep"
    /\ now' = now + loop.gap
    /\ loop' = [loop EXCEPT !.pc = "start"]
    /\ UNCHANGED <<config, usage_history, file, lastOp, arg, ret, saved,
                   synced, log>>
    /\ UNCHANGED peer

\* ralph_loop: last_iteration_start_time = time.time(), written to the
\* timing file unless write_text raises OSError (written = FALSE), and
\* get_remaining_budget() for the iteration header
iteration_start(written) ==
    /\ loop.pc = "start"
    /\ usage_history' = clean_old_records(usage_history, now)
    /\ ret' = remaining_budget(usage_history')
    /\ lastOp' = "get_remaining_budget"
    /\ arg' = 0
    /\ saved' = "none"
    /\ loop' = [loop EXCEPT !.pc = "invoke", !.last_iteration_start_time = <<now>>,
                            !.time_file = IF written
                                          THEN [kind |-> "time", t |-> now]
                                          ELSE @]
    /\ UNCHANGED <<now, config, file, synced, log>>
    /\ UNCHANGED peer

\* execute_task: estimate_iteration_tokens(num_tool_calls=8), then
\* get_wait_time(estimated_tokens)
execute_task_check ==
    /\ loop.pc = "execute_task"
    /\ usage_history' = clean_old_records(usage_history, now)
    /\ arg' = estimate_iteration_tokens(8)
    /\ ret' = wait_time(usage_history', now, arg')
    /\ lastOp' = "get_wait_time"
    /\ saved' = "none"
    /\ loop' = [loop EXCEPT !.estimated = TRUE, !.wait_checked = TRUE,
                            !.wait = ret',
                            !.pc = IF ret' > 0 THEN "sleep" ELSE "invoke"]
    /\ UNCHANGED <<now, config, file, synced, log>>
    /\ UNCHANGED peer

\* mutant of execute_task_sleep: the shutdown flag is looked at when the
\* sleep ends, and the loop is left if it is set
execute_task_sleep_checks ==
    /\ loop.pc = "sleep"
    /\ now' = now + loop.wait
    /\ loop' = [loop EXCEPT !.slept = loop.wait,
                            !.pc = IF loop.shutdown THEN "done" ELSE "invoke"]
    /\ UNCHANGED <<config, usage_history, file, lastOp, arg, ret, saved,
                   synced, log>>
    /\ UNCHANGED peer

\* execute_task: if wait_time > 0: time.sleep(wait_time)
execute_task_sleep ==
    /\ loop.pc = "sleep"
    /\ now' = now + loop.wait
    /\ loop' = [loop EXCEPT !.slept = loop.wait, !.pc = "invoke"]
    /\ UNCHANGED <<config, usage_history, file, lastOp, arg, ret, saved,
                   synced, log>>
    /\ UNCHANGED peer

\* agent.astream_events(...) / agent.ainvoke(...): the unit of work is handed
\* to the agent
agent_handoff ==
    /\ loop.pc = "invoke"
    /\ loop' = [loop EXCEPT !.pc = "running", !.units = @ + 1,
                            !.log_at_handoff = Len(log)]
    /\ UNCHANGED <<now, config, usage_history, file, lastOp, arg, ret, saved,
                   synced, log>>
    /\ UNCHANGED peer

\* mutant of agent_event: the figure is added to the total of the run and
\* left to be recorded when the stream has ended
agent_event_counts_only(k) ==
    /\ loop.pc = "running"
    /\ loop.prog = "main"
    /\ loop.events < MaxEvents
    /\ saved' = "none"
    /\ loop' = [loop EXCEPT !.events = @ + 1, !.reported = @ + k]
    /\ UNCHANGED <<now, config, file, synced, usage_history, log, lastOp, arg, ret>>
    /\ UNCHANGED peer

\* execute_task: one on_llm_end / on_chat_model_stream event of the stream,
\* with total_tokens k; record_usage(k) only if k > 0
agent_event(k) ==
    /\ loop.pc = "running"
    /\ loop.prog = "main"
    /\ loop.events < MaxEvents
    /\ IF k > 0
       THEN /\ usage_history' =
                  clean_old_records(append_usage(usage_history, now, k), now)
            /\ log' = Append(log, TokenUsage(now, k))
            /\ lastOp' = "record_usage"
            /\ arg' = k
            /\ ret' = 0
       ELSE UNCHANGED <<usage_history, log, lastOp, arg, ret>>
    /\ saved' = "none"
    /\ loop' = [loop EXCEPT !.events = @ + 1, !.reported = @ + k]
    /\ UNCHANGED <<now, config, file, synced>>
    /\ UNCHANGED peer

\* the stream ends / ainvoke returns, d seconds later
agent_returns(d) ==
    /\ loop.pc = "running"
    /\ now' = now + d
    /\ loop' = [loop EXCEPT !.pc = "returned"]
    /\ UNCHANGED <<config, usage_history, file, lastOp, arg, ret, saved,
                   synced, log>>
    /\ UNCHANGED peer

\* mutant of agent_raises: ralph_loop retries every exception
agent_raises_retries_all(msg) ==
    /\ loop.pc = "running"
    /\ loop' = IF loop.prog = "ralph_loop" /\ loop.attempt < 5 - 1
               THEN [loop EXCEPT !.pc = "backoff", !.exc = msg]
               ELSE [loop EXCEPT !.pc = "handler", !.exc = msg,
                                 !.failure = IF is_rate_limit_error(msg)
                                             THEN "rate_limit" ELSE "error"]
    /\ UNCHANGED <<now, config, usage_history, file, lastOp, arg, ret, saved,
                   synced, log>>
    /\ UNCHANGED peer

\* the stream or ainvoke raises an Exception with message msg.  ralph_loop
\* retries a rate-limit error while attempt < max_retries - 1 (it sleeps
\* inside the except clause, e is dropped when the clause is left) and re-raises
\* every other one; execute_task re-raises; the iteration's except Exception
\* takes what is raised
agent_raises(msg) ==
    /\ loop.pc = "running"
    /\ loop' = IF loop.prog = "ralph_loop" /\ is_rate_limit_error(msg)
                  /\ loop.attempt < 5 - 1
               THEN [loop EXCEPT !.pc = "backoff", !.exc = msg]
               ELSE [loop EXCEPT !.pc = "handler", !.exc = msg,
                                 !.failure = IF is_rate_limit_error(msg)
                                             THEN "rate_limit" ELSE "error"]
    /\ UNCHANGED <<now, config, usage_history, file, lastOp, arg, ret, saved,
                   synced, log>>
    /\ UNCHANGED peer

\* 2 ^ n
RECURSIVE Pow2(_)
Pow2(n) == IF n = 0 THEN 1 ELSE 2 * Pow2(n - 1)

\* mutant of retry_backoff: the delay grows by one second, not twofold
retry_backoff_linear ==
    /\ loop.pc = "backoff"
    /\ now' = now + loop.attempt + 1
    /\ loop' = [loop EXCEPT !.attempt = loop.attempt + 1, !.pc = "running",
                            !.exc = NoException]
    /\ UNCHANGED <<config, usage_history, file, lastOp, arg, ret, saved,
                   synced, log>>
    /\ UNCHANGED peer

\* ralph_loop: asyncio.sleep(retry_delay); retry_delay *= 2; continue, and
\* the next attempt invokes the agent again
retry_backoff ==
    /\ loop.pc = "backoff"
    /\ now' = now + Pow2(loop.attempt)
    /\ loop' = [loop EXCEPT !.attempt = loop.attempt + 1, !.pc = "running",
                            !.exc = NoException]
    /\ UNCHANGED <<config, usage_history, file, lastOp, arg, ret, saved,
                   synced, log>>
    /\ UNCHANGED peer

\* what follows the unit inside the try block.  main calls
\* token_tracker.get_stats(), which TokenBudgetTracker does not have: the
\* AttributeError goes to except Exception.  ralph_loop records
\* total_chars // 4 = k tokens.  main_minimal only prints
after_unit(k, outcome) ==
    /\ loop.pc = "returned"
    /\ IF loop.prog = "ralph_loop"
       THEN /\ outcome # "none"
            /\ usage_history' =
                  clean_old_records(append_usage(usage_history, now, k), now)
            /\ file' = save_state(usage_history', outcome)
            /\ saved' = outcome
            /\ synced' = (outcome = "ok")
            /\ log' = Append(log, TokenUsage(now, k))
            /\ lastOp' = "record_usage"
            /\ arg' = k
            /\ ret' = 0
       ELSE /\ outcome = "none"
            /\ k = 0
            /\ UNCHANGED <<usage_history, file, saved, synced, log, lastOp, arg, ret>>
    /\ loop' = IF loop.prog = "main"
               THEN [loop EXCEPT !.pc = "handler", !.failure = "AttributeError",
                                 !.exc = {}]
               ELSE [loop EXCEPT !.pc = "completed", !.reported = @ + k]
    /\ UNCHANGED <<now, config>>
    /\ UNCHANGED peer

\* mutant of iteration_end: an error of the iteration ends the loop
iteration_end_error_breaks ==
    /\ loop.pc \in {"completed", "handler"}
    /\ now' = IF \/ loop.prog = "main_minimal"
                 \/ (loop.prog = "main" /\ ~loop.shutdown)
              THEN now + 1
              ELSE now
    /\ loop' = IF loop.pc = "handler"
               THEN [loop EXCEPT !.pc = "done", !.exc = NoException]
               ELSE [loop EXCEPT !.iteration = loop.iteration + 1, !.pc = "top",
                                 !.exc = NoException]
    /\ UNCHANGED <<config, usage_history, file, lastOp, arg, ret, saved,
                   synced, log>>
    /\ UNCHANGED peer

\* the end of the try statement: except Exception prints and goes on;
\* iteration += 1, then main sleeps 1 s unless shutdown is requested,
\* main_minimal sleeps 1 s, ralph_loop does not sleep
iteration_end ==
    /\ loop.pc \in {"completed", "handler"}
    /\ now' = IF \/ loop.prog = "main_minimal"
                 \/ (loop.prog = "main" /\ ~loop.shutdown)
              THEN now + 1
              ELSE now
    /\ loop' = [loop EXCEPT !.iteration = loop.iteration + 1, !.pc = "top",
                            !.exc = NoException]
    /\ UNCHANGED <<config, usage_history, file, lastOp, arg, ret, saved,
                   synced, log>>
    /\ UNCHANGED peer

\* mutant of print_summary: the summary reports the usage of the window
print_summary_with_usage ==
    /\ loop.pc = "done"
    /\ usage_history' = clean_old_records(usage_history, now)
    /\ ret' = SumTokens(usage_history')
    /\ lastOp' = "get_usage_in_window"
    /\ arg' = 0
    /\ loop' = [loop EXCEPT !.pc = "exited"]
    /\ UNCHANGED <<now, config, file, saved, synced, log>>
    /\ UNCHANGED peer

\* after the loop: read_state and the "Ralph Session Complete" panel
\* (_print_summary in ralph_loop), then the program returns
print_summary ==
    /\ loop.pc = "done"
    /\ loop' = [loop EXCEPT !.pc = "exited"]
    /\ UNCHANGED <<now, config, usage_history, file, lastOp, arg, ret, saved,
                   synced, log>>
    /\ UNCHANGED peer

LoopNext ==
    \/ validate
    \/ ensure_workspace
    \/ load_or_create_state
    \/ build_tracker
    \/ signal_handler
    \/ loop_top
    \/ iteration_gap
    \/ gap_sleep
    \/ iteration_start(TRUE)
    \/ execute_task_check
    \/ execute_task_sleep
    \/ agent_handoff
    \/ \E k \in UnitTokens : agent_event(k)
    \/ \E d \in UnitSeconds : agent_returns(d)
    \/ \E msg \in ErrorMessages : agent_raises(msg)
    \/ retry_backoff
    \/ \E k \in UnitTokens, outcome \in {"none", "ok", "fail", "torn"} :
          after_unit(k, outcome)
    \/ iteration_end
    \/ print_summary

LoopSpec == LoopInit /\ [][LoopNext]_vars

\* ------------------------------- the scenario: limit 1000, window 60 s
\* TokenBudgetTracker(max_tokens_per_minute=1000, safety_margin=0.9,
\* window_seconds=60) without persist_path, just built at time 0
ScenarioInit ==
    /\ now = 0
    /\ max_tokens = CapOf(1000, SafetyMarginPct)
    /\ window_seconds = 60
    /\ persist_path = FALSE
    /\ usage_history = <<>>
    /\ file = NoFile
    /\ lastOp = "init"
    /\ arg = 0
    /\ ret = 0
    /\ saved = "none"
    /\ synced = FALSE
    /\ log = <<>>
    /\ loop = NoLoop
    /\ peer = NoPeer

\* one second passes, up to one second after the window of the first record
ScenarioTick ==
    /\ now < 60 + 1
    /\ now' = now + 1
    /\ lastOp' = "tick"
    /\ arg' = 0
    /\ ret' = 0
    /\ saved' = "none"
    /\ UNCHANGED <<config, usage_history, file, log, synced>>
    /\ UNCHANGED <<loop, peer>>

\* record_usage(400), at t = 0 and at t = 10
ScenarioRecord ==
    /\ now \in {0, 10}
    /\ Len(log) < 2
    /\ record_usage(400, "none")

ScenarioNext ==
    \/ ScenarioTick
    \/ ScenarioRecord
    \/ get_usage_in_window
    \/ get_remaining_budget
    \/ get_wait_time(200)

ScenarioSpec == ScenarioInit /\ [][ScenarioNext]_vars

\* a snapshot whose load is a failure: unreadable or no JSON, or one with an
\* entry that lacks a field or holds a value that is no number
Malformed(f) ==
    \/ f.kind = "corrupt"
    \/ \E i \in 1..Len(f.usage_history) :
          \/ ~has_fields(f.usage_history[i])
          \/ ~IsNumber(f.usage_history[i]["timestamp"])
          \/ ~IsNumber(f.usage_history[i]["tokens"])

\* C13: a failure while loading the snapshot (unreadable file, invalid JSON,
\* an entry with a missing or ill-typed field) never raises out of the
\* constructor and leaves the tracker with an empty history.
C13_LoadFailureLeavesEmpty ==
    (lastOp = "init" /\ Malformed(file)) => usage_history = <<>>

\* the calls recorded so far are record_usage(400) at t = 0 only
OneRecorded == log = <<TokenUsage(0, 400)>>

\* the calls recorded so far are record_usage(400) at t = 0 and at t = 10
BothRecorded == log = <<TokenUsage(0, 400), TokenUsage(10, 400)>>

\* C18: with limit 1000, margin 0.9 (cap 900) and window 60 s: after
\* recording 400 at t=0, at t=10 usage is 400 and the remaining budget 500;
\* after recording 400 more at t=10 usage is 800 and get_wait_time(200) is
\* > 0 and equals 60 - 10 + buffer; at t=61 the t=0 record is pruned, usage
\* is 400 and get_wait_time(200) is 0.
C18_Scenario ==
    /\ max_tokens = 900
    /\ (now = 10 /\ OneRecorded /\ lastOp = "get_usage_in_window") => ret = 400
    /\ (now = 10 /\ OneRecorded /\ lastOp = "get_remaining_budget") => ret = 500
    /\ (now = 10 /\ BothRecorded /\ lastOp = "get_usage_in_window") => ret = 800
    /\ (now = 10 /\ BothRecorded /\ lastOp = "get_wait_time")
          => (ret > 0 /\ ret = 60 - 10 + Buffer)
    /\ (now = 61 /\ BothRecorded
           /\ lastOp \in {"get_usage_in_window", "get_remaining_budget", "get_wait_time"})
          => usage_history = <<TokenUsage(10, 400)>>
    /\ (now = 61 /\ BothRecorded /\ lastOp = "get_usage_in_window") => ret = 400
    /\ (now = 61 /\ BothRecorded /\ lastOp = "get_wait_time") => ret = 0

\* at t=61, both records made, get_wait_time(200) has answered 0
C18_Witness ==
    /\ now = 61
    /\ BothRecorded
    /\ lastOp = "get_wait_time"
    /\ arg = 200
    /\ ret = 0
    /\ Len(usage_history) = 1

\* C20: every iteration that executes a unit of work first computes the
\* estimate and evaluates get_wait_time(estimate) on the tracker, and sleeps
\* for exactly that delay when it is > 0, before the unit is handed to the
\* agent, in every loop that drives the agent.
C20_PacedBeforeHandoff ==
    loop.pc = "running" =>
        /\ loop.estimated
        /\ loop.wait_checked
        /\ loop.wait > 0 => loop.slept = loop.wait

\* an exception reached the iteration's except Exception
Failed == loop.failure # ""

\* C21: a failure of the unit of work, a rate-limit error that exhausted its
\* retries included, is caught at the iteration boundary and does not end
\* the loop: the iteration counter goes up by exactly one and the loop goes
\* on to its next top-of-loop.
C21_FailureContinues ==
    [][/\ (loop.pc = "running" /\ loop'.pc \notin {"running", "returned", "backoff"})
            => (loop'.pc = "handler" /\ loop'.failure \in ErrorKinds
                /\ loop'.iteration = loop.iteration)
       /\ (loop.pc = "handler" /\ loop'.pc # "handler")
            => (loop'.pc = "top" /\ loop'.iteration = loop.iteration + 1
                /\ loop'.failure = loop.failure)]_vars

\* C21 witness: back at the top of the loop, one iteration further, after the
\* fifth rate-limited attempt of ralph_loop went to the handler
C21_Witness ==
    /\ loop.prog = "ralph_loop"
    /\ loop.pc = "top"
    /\ loop.failure = "rate_limit"
    /\ loop.attempt = 4
    /\ loop.iteration = loop.start_iteration + 1

\* the loop is in a pacing sleep: time.sleep(wait_time) of execute_task, or
\* the asyncio.sleep that keeps ralph_loop's iterations 65 s apart
InPacingSleep(l) == l.pc \in {"sleep", "gap_sleep"}

\* C22, as claimed: the shutdown flag is checked again after the pacing
\* sleep, so that a shutdown requested during that sleep keeps the unit of
\* work from being started when the sleep ends.
C22_NoUnitAfterShutdownInSleep ==
    loop.pc = "running" => loop.requested_during # "pacing"

\* C22, amended: the shutdown flag is checked at the top of each iteration
\* only.  The loop is left from its top and from nowhere else; when a pacing
\* sleep ends the iteration goes on to hand its unit to the agent, shutdown
\* requested or not; and at the top a set flag ends the loop.
C22_ShutdownSeenAtTopOnly ==
    [][/\ (loop'.pc = "done" /\ loop.pc # "done") => loop.pc = "top"
       /\ (InPacingSleep(loop) /\ loop'.pc # loop.pc)
            => loop'.pc = IF loop.pc = "sleep" THEN "invoke" ELSE "start"
       /\ (loop.pc = "start" /\ loop'.pc # loop.pc) => loop'.pc = "invoke"
       /\ (loop.pc = "invoke" /\ loop'.pc # loop.pc) => loop'.pc = "running"
       /\ (loop.pc = "top" /\ loop.shutdown /\ loop'.pc # loop.pc)
            => loop'.pc = "done"]_vars

\* C22 witness: main has left its loop after a shutdown requested in the
\* pacing sleep of execute_task, and every iteration it began ran its unit
C22_Witness ==
    /\ loop.prog = "main"
    /\ loop.pc = "done"
    /\ loop.requested_during = "pacing"
    /\ loop.slept > 0
    /\ loop.units = loop.iteration - loop.start_iteration

\* C23: a shutdown request that arrives while a unit of work is executing
\* only sets the flag: the unit in flight runs to its end and its usage is
\* recorded, and the loop ends at the next top-of-loop check without
\* starting another unit.
C23_ShutdownLetsUnitFinish ==
    [][/\ (~loop.shutdown /\ loop'.shutdown)
            => /\ loop' = [loop EXCEPT !.shutdown = TRUE,
                                       !.requested_during = loop'.requested_during]
               /\ UNCHANGED <<now, config, usage_history, file, log>>
       /\ loop.requested_during = "unit"
            => /\ loop'.units = loop.units
               /\ (loop'.pc = "done" /\ loop.pc # "done") => loop.pc = "top"
               /\ (loop.pc = "running" /\ loop'.pc # loop.pc)
                    => loop'.pc \in {"returned", "backoff", "handler"}
               /\ loop'.reported # loop.reported
                    => /\ log' = Append(log, TokenUsage(now, loop'.reported - loop.reported))
                       /\ usage_history' # <<>>
                       /\ usage_history'[Len(usage_history')] = log'[Len(log')]
               /\ (loop.prog = "ralph_loop" /\ loop.pc = "returned"
                   /\ loop'.pc # loop.pc)
                    => Len(log') = Len(log) + 1]_vars

\* C23 witness: ralph_loop has left its loop after a shutdown requested while
\* its only unit was with the agent, and the usage of that unit is recorded
C23_Witness ==
    /\ loop.prog = "ralph_loop"
    /\ loop.pc = "done"
    /\ loop.requested_during = "unit"
    /\ loop.units = 1
    /\ loop.reported > 0
    /\ Len(log) = 1
    /\ log[1].tokens = loop.reported

\* the loop has been left: by the shutdown check or by the max_iterations
\* check
Done(l) == l.pc \in {"done", "exited"}

\* C24: Done is terminal: once the loop has been left through a shutdown
\* request or the iteration cap, no estimate, no wait-time evaluation, no
\* pacing sleep, no unit of work and no record_usage happens any more.
C24_DoneIsTerminal ==
    [][Done(loop) =>
         /\ Done(loop')
         /\ loop' = [loop EXCEPT !.pc = loop'.pc, !.shutdown = loop'.shutdown,
                                 !.requested_during = loop'.requested_during]
         /\ UNCHANGED <<now, config, usage_history, file, log, lastOp, arg, ret,
                        saved>>]_vars

\* C24 witness: the program has returned after its loop ran units and was
\* left at the iteration cap, with usage on record
C24_Witness ==
    /\ loop.pc = "exited"
    /\ ~loop.shutdown
    /\ loop.units = MaxIterations
    /\ usage_history # <<>>

\* the iteration under way has its unit of work ahead, with the agent or
\* just behind it
InIteration(l) ==
    l.pc \in {"execute_task", "sleep", "gap", "gap_sleep", "start", "invoke",
              "running", "backoff", "returned", "completed", "handler"}

\* C25: with max_iterations = N > 0 no unit of work is executed for an
\* iteration number above N, and a loop that begins at iteration i runs at
\* most max(0, N - i + 1) units; with max_iterations = 0 the iteration cap
\* never ends the loop.
C25_IterationCap ==
    /\ (loop.max_iterations > 0 /\ InIteration(loop))
          => loop.iteration <= loop.max_iterations
    /\ loop.max_iterations > 0
          => loop.units <= Max(0, loop.max_iterations - loop.start_iteration + 1)
    /\ (loop.max_iterations = 0 /\ Done(loop)) => loop.shutdown

\* C25 witness: a loop that began at iteration 2 with max_iterations = 2 has
\* been left by the cap after one unit
C25_Witness ==
    /\ loop.pc = "done"
    /\ ~loop.shutdown
    /\ loop.max_iterations = 2
    /\ loop.start_iteration = 2
    /\ loop.units = 1
    /\ loop.iteration = 3

\* the unit of the iteration under way has come back from the agent without
\* an exception and without any token figure
CompletedWithoutFigure ==
    /\ loop.tracker_built
    /\ loop.pc \in {"completed", "handler"}
    /\ loop.failure \notin ErrorKinds
    /\ loop.reported = 0

\* what get_usage_in_window() would return now, had the unit recorded zero
\* tokens: the tokens of the records made before the handoff that are still
\* in the window
UsageHadZeroBeenRecorded ==
    SumTokens(WindowOf(SubSeq(log, 1, loop.log_at_handoff), now))

\* C26: when a unit of work completes without any observable token-usage
\* figure, the iteration does not fail and get_usage_in_window() afterwards
\* is what it would be had zero tokens been recorded.
C26_NoFigureNoFailure ==
    CompletedWithoutFigure =>
        /\ loop.pc = "completed"
        /\ UsageNow = UsageHadZeroBeenRecorded

InvalidConfig(l) == l.max_iterations < 0 \/ l.max_todos_per_iteration < 1

\* C28: a configuration validation error (negative max_iterations, or
\* max_todos_per_iteration < 1) is raised at startup before the loop begins:
\* no iteration is executed, no tracker is constructed and no workspace or
\* state file is created.
C28_ValidationFirst ==
    /\ InvalidConfig(loop) =>
          /\ loop.pc \in {"validate", "config_error"}
          /\ loop.iteration = 0
          /\ loop.units = 0
          /\ ~loop.tracker_built
          /\ lastOp = "start"
          /\ loop.workspace_exists = (loop.state_file.kind # "absent")
          /\ loop.state_iteration = 0
    /\ loop.pc = "config_error" => InvalidConfig(loop)

\* C28 witness: validate() has raised on max_iterations = -1 in a directory
\* without workspace, and there is none still
C28_Witness ==
    /\ loop.pc = "config_error"
    /\ loop.max_iterations = -1
    /\ loop.max_todos_per_iteration = 1
    /\ ~loop.workspace_exists
    /\ loop.state_file = NoState

\* C29: at the moment a unit of work is started, after the pacing sleep of
\* the computed duration if there was one, get_usage_in_window() + estimate
\* <= cap, for every estimate that is itself <= cap.
C29_StartsWithinCap ==
    /\ (lastOp = "get_wait_time" /\ ret = 0 /\ arg <= max_tokens)
          => UsageNow + arg <= max_tokens
    /\ (lastOp = "sleep" /\ arg <= max_tokens)
          => UsageNow + arg <= max_tokens

\* h2 is h1 without some of its front records
IsSuffixOf(h2, h1) ==
    /\ Len(h2) <= Len(h1)
    /\ h2 = SubSeq(h1, Len(h1) - Len(h2) + 1, Len(h1))

\* C30: every change record_usage, get_usage_in_window, get_wait_time or
\* get_remaining_budget makes to the history is the append of one record at
\* the back or the removal of a prefix from the front: no record's timestamp
\* or tokens is modified, and no record is removed while an older one stays.
C30_AppendOrEvictFront ==
    [][/\ lastOp' \in {"get_usage_in_window", "get_wait_time", "get_remaining_budget"}
            => IsSuffixOf(usage_history', usage_history)
       /\ lastOp' = "record_usage"
            => /\ IsSuffixOf(usage_history',
                             Append(usage_history, TokenUsage(now', arg')))
               /\ Len(usage_history') \in 1..(Len(usage_history) + 1)
               /\ usage_history'[Len(usage_history')] = TokenUsage(now', arg')]_vars

\* C30 witness: a record_usage call has evicted the oldest record and kept a
\* younger one, unchanged, in front of the record it appended
C30_Witness ==
    /\ lastOp = "record_usage"
    /\ Len(log) = 3
    /\ usage_history = SubSeq(log, 2, 3)
    /\ log[2].tokens = 1
    /\ log[2].timestamp < now

\* the read operations of the tracker
ReadOps == {"get_usage_in_window", "get_remaining_budget", "get_wait_time"}

\* C31: get_usage_in_window, get_remaining_budget and get_wait_time have no
\* effect beyond pruning stale records from the in-memory history: what is
\* left is the old history without some front records, each of them older
\* than the window; no record is appended, cap, window_seconds and the
\* persist path stay, and the persisted snapshot is not written.
C31_ReadsOnlyPrune ==
    [][lastOp' \in ReadOps
         => /\ IsSuffixOf(usage_history', usage_history)
            /\ \A i \in 1..(Len(usage_history) - Len(usage_history')) :
                  usage_history[i].timestamp < now - window_seconds
            /\ UNCHANGED <<max_tokens, window_seconds, persist_path>>
            /\ UNCHANGED <<file, log>>]_vars

\* C31 witness: a read operation has pruned a record that the snapshot on
\* disk still holds
C31_Witness ==
    /\ lastOp \in ReadOps
    /\ persist_path
    /\ file.kind = "json"
    /\ synced
    /\ Len(log) > 0
    /\ Deserialize(file) = log
    /\ Len(usage_history) < Len(log)

\* an exception of the agent invocation that is no rate-limit error is being
\* handled
OtherErrorCaught(l) ==
    /\ l.exc # NoException
    /\ ~is_rate_limit_error(l.exc)
    /\ l.failure = "error"

C33_WaitBounded ==
    lastOp = "get_wait_time" => (ret >= 0 /\ ret <= window_seconds + Buffer)

\* C33 witness: get_wait_time has returned a wait short of the bound, for a
\* history whose oldest record has aged, with the snapshot of it on disk
C33_Witness ==
    /\ lastOp = "get_wait_time"
    /\ ret > 0
    /\ ret < window_seconds + Buffer
    /\ usage_history # <<>>
    /\ usage_history[1].timestamp < now
    /\ persist_path
    /\ file = Serialize(usage_history)

\* ------------------------------------- two processes on one persist_path
\* record_usage calls each of the two processes makes, at most
MaxWrites == 2

\* a process with a persist_path, and no second process yet
SharedInit ==
    /\ now = 0
    /\ max_tokens = CapOf(MaxLimit, SafetyMarginPct)
    /\ window_seconds \in {MaxWindow - 1, MaxWindow}
    /\ persist_path = TRUE
    /\ usage_history = <<>>
    /\ file = NoFile
    /\ lastOp = "init"
    /\ arg = 0
    /\ ret = 0
    /\ saved = "none"
    /\ synced = FALSE
    /\ log = <<>>
    /\ loop = NoLoop
    /\ peer = NoPeer

\* TokenBudgetTracker.__init__ in the second process, with the same arguments
\* and the same persist_path: it loads what the file holds
peer_init ==
    /\ ~peer.running
    /\ peer' = [running |-> TRUE,
                usage_history |-> IF file.kind # "absent"
                                  THEN load_state(file, now)
                                  ELSE <<>>,
                recorded |-> 0]
    /\ lastOp' = "peer_init"
    /\ arg' = 0
    /\ ret' = 0
    /\ saved' = "none"
    /\ UNCHANGED <<now, config, usage_history, file, synced, log, loop>>

\* mutant of peer_record_usage: the snapshot is read and the history is
\* written behind what it holds
peer_record_usage_merges(k, outcome) ==
    /\ peer.running
    /\ peer.recorded < MaxWrites
    /\ outcome # "none"
    /\ peer' = [peer EXCEPT
                  !.usage_history =
                      clean_old_records(append_usage(@, now, k), now),
                  !.recorded = @ + 1]
    /\ file' = save_state(Deserialize(file) \o peer'.usage_history, outcome)
    /\ saved' = outcome
    /\ synced' = (synced /\ outcome = "fail")
    /\ lastOp' = "peer_record_usage"
    /\ arg' = k
    /\ ret' = 0
    /\ UNCHANGED <<now, config, usage_history, log, loop>>

\* record_usage(k) on the tracker of the second process: append, prune, and
\* _save_state writes that tracker's own history over the file
peer_record_usage(k, outcome) ==
    /\ peer.running
    /\ peer.recorded < MaxWrites
    /\ outcome # "none"
    /\ peer' = [peer EXCEPT
                  !.usage_history =
                      clean_old_records(append_usage(@, now, k), now),
                  !.recorded = @ + 1]
    /\ file' = save_state(peer'.usage_history, outcome)
    /\ saved' = outcome
    /\ synced' = (synced /\ outcome = "fail")
    /\ lastOp' = "peer_record_usage"
    /\ arg' = k
    /\ ret' = 0
    /\ UNCHANGED <<now, config, usage_history, log, loop>>

\* the first process records MaxTok tokens a call and the second none, so
\* that a record in the snapshot tells which process made it
SharedNext ==
    \/ Tick
    \/ \E outcome \in {"ok", "fail", "torn"} :
          Len(log) < MaxWrites /\ record_usage(MaxTok, outcome)
    \/ peer_init
    \/ \E outcome \in {"ok", "fail", "torn"} : peer_record_usage(0, outcome)

SharedSpec == SharedInit /\ [][SharedNext]_vars

\* the records of history h
Records(h) == {h[i] : i \in 1..Len(h)}

\* C34: two trackers share one persist_path without locking: a record_usage
\* whose save succeeds overwrites the snapshot with the writer's own history
\* only, so after interleaved writes the snapshot holds the last writer's
\* records, and a record only the other tracker knows is absent from it.
C34_LastWriterWins ==
    [][/\ (lastOp' = "record_usage" /\ saved' = "ok")
          => /\ file' = Serialize(usage_history')
             /\ peer.running =>
                    \A r \in Records(peer.usage_history) \ Records(usage_history') :
                       r \notin Records(Deserialize(file'))
       /\ (lastOp' = "peer_record_usage" /\ saved' = "ok")
          => /\ file' = Serialize(peer'.usage_history)
             /\ \A r \in Records(usage_history) \ Records(peer'.usage_history) :
                    r \notin Records(Deserialize(file'))]_vars

\* C34 witness: the second process wrote last; the snapshot, which held a
\* record of the first process, now holds the second's history and not that
\* record, which the first still has in memory
C34_Witness ==
    /\ lastOp = "peer_record_usage"
    /\ saved = "ok"
    /\ peer.running
    /\ file = Serialize(peer.usage_history)
    /\ Len(peer.usage_history) = 1
    /\ Len(usage_history) = 2
    /\ \E i \in 1..2 : usage_history[i] \notin Records(Deserialize(file))

\* ------------------------------------------ ralph_loop in a used workspace
\* what .ralph_last_iteration_time holds when ralph_loop is called at time 0:
\* there is no such file, it cannot be read or holds no number, or a process
\* run before wrote the start of its last iteration, 30 s or 100 s ago
TimeFiles ==
    {[kind |-> "absent", t |-> 0], [kind |-> "invalid", t |-> 0],
     [kind |-> "time", t |-> -30], [kind |-> "time", t |-> -100]}

\* ralph_loop called in a workspace an earlier process has run in
RestartInit ==
    /\ now = 0
    /\ loop \in {[NewLoop EXCEPT !.prog = "ralph_loop",
                                !.max_iterations = n,
                                !.state_file = state_to_markdown(RalphState(i)),
                                !.workspace_exists = TRUE,
                                !.time_file = f] :
                    n \in 0..MaxIterations, i \in 1..MaxIterations,
                    f \in TimeFiles}
    /\ peer = NoPeer
    /\ max_tokens = 0
    /\ window_seconds = 60
    /\ persist_path = FALSE
    /\ usage_history = <<>>
    /\ file = NoFile
    /\ lastOp = "start"
    /\ arg = 0
    /\ ret = 0
    /\ saved = "none"
    /\ synced = FALSE
    /\ log = <<>>

\* the steps of ralph_loop; the timing file is written or the write fails,
\* a unit of work takes no time or a window, reports a whole cap and is
\* saved, or fails with a rate-limit error or another one
RestartNext ==
    \/ validate
    \/ ensure_workspace
    \/ load_or_create_state
    \/ build_tracker
    \/ signal_handler
    \/ loop_top
    \/ iteration_gap
    \/ gap_sleep
    \/ \E written \in BOOLEAN : iteration_start(written)
    \/ agent_handoff
    \/ \E d \in UnitSeconds : agent_returns(d)
    \/ \E msg \in {{"429"}, {}} : agent_raises(msg)
    \/ retry_backoff
    \/ after_unit(max_tokens, "ok")
    \/ iteration_end
    \/ print_summary

RestartSpec == RestartInit /\ [][RestartNext]_vars

\* the step on which an iteration of ralph_loop starts
IterationStarts == loop.pc = "start" /\ loop'.pc = "invoke"

\* C35: in ralph_loop any two consecutive iteration starts are at least 65 s
\* apart, and the first iteration of a restarted process starts at least
\* 65 s after the iteration start the timing file holds, when the file can
\* be read; a timing file that is absent, unreadable or invalid imposes no
\* wait: the first iteration starts at once.
C35_IterationSpacing ==
    [][/\ IterationStarts
          => /\ loop.last_iteration_start_time # <<>>
                   => now - loop.last_iteration_start_time[1] >= 65
             /\ (loop.units = 0 /\ loop.time_file.kind = "time")
                   => now - loop.time_file.t >= 65
             /\ (loop.units = 0 /\ loop.time_file.kind # "time")
                   => (now = 0 /\ loop.gap = 0)
             /\ loop'.last_iteration_start_time = <<now>>
       /\ (loop.units = 0 /\ loop.time_file.kind # "time")
          => loop'.pc # "gap_sleep"]_vars

\* C35 witness: a process restarted 30 s after the last iteration start on
\* file began its first iteration at 35 s and its second, after a unit that
\* took no time, at 100 s
C35_Witness ==
    /\ loop.prog = "ralph_loop"
    /\ loop.pc = "invoke"
    /\ loop.units = 1
    /\ loop.last_iteration_start_time = <<100>>
    /\ now = 100

\* ------------------------------------------------ the loops, kept running
\* a program called with a valid RalphConfig that caps the iterations
LiveInit ==
    /\ LoopInit
    /\ loop.max_iterations > 0
    /\ loop.max_todos_per_iteration >= 1

\* a step of the program or of the agent it waits for.  A unit of work
\* reports nothing or a whole cap, takes no time or a window, and fails with
\* a rate-limit error or another one
ProgramStep ==
    \/ validate
    \/ ensure_workspace
    \/ load_or_create_state
    \/ build_tracker
    \/ loop_top
    \/ iteration_gap
    \/ gap_sleep
    \/ iteration_start(TRUE)
    \/ execute_task_check
    \/ execute_task_sleep
    \/ agent_handoff
    \/ agent_event(max_tokens)
    \/ \E d \in UnitSeconds : agent_returns(d)
    \/ \E msg \in {{"429"}, {}} : agent_raises(msg)
    \/ retry_backoff
    \/ \E k \in {0, max_tokens}, outcome \in {"none", "ok"} :
          after_unit(k, outcome)
    \/ iteration_end
    \/ print_summary

LiveNext ==
    \/ signal_handler
    \/ ProgramStep

\* the interpreter goes on running the program, sleeps end, and the agent
\* ends every unit of work and every retry, by returning or by raising
LiveSpec == LiveInit /\ [][LiveNext]_vars /\ WF_vars(ProgramStep)

\* C36: with max_iterations = N > 0 and every unit of work and every retry
\* terminating, the loop reaches Done after finitely many iterations, also
\* when every unit of work fails and every pacing check demands a wait.
C36_ReachesDone ==
    (loop.pc = "top" /\ loop.max_iterations > 0) ~> Done(loop)

\* C36 witness: the loop has reached Done at the iteration cap although each
\* of its two units of work failed, the second after a pacing sleep
C36_Witness ==
    /\ loop.pc = "done"
    /\ loop.max_iterations = 2
    /\ loop.iteration = 3
    /\ loop.units = 2
    /\ loop.failure # ""
    /\ loop.slept > 0
    /\ ~loop.shutdown

\* C37: in the loop of src/main.py an iteration whose execute_task call
\* has returned normally is reported as completed and does not enter the
\* exception handler of the iteration.
C37_ReturnMeansCompleted ==
    [][(loop.prog = "main" /\ loop.pc = "returned" /\ loop'.pc # "returned")
          => (loop'.pc = "completed" /\ loop'.failure = "")]_vars

\* the records the tracker was given since the unit of work under way was
\* handed to the agent
RecordedThisRun == SubSeq(log, loop.log_at_handoff + 1, Len(log))

\* C38: in execute_task, when the agent stream raises after usage figures
\* were observed, the usage already observed stays recorded in the tracker
\* and the exception goes to the caller; the later wait-time check of the
\* loop counts every record still in the window; and the tokens one
\* execute_task call has recorded always sum to the total it accumulated.
C38_PartialUsageKept ==
    [][loop'.prog = "main" =>
         /\ loop'.pc \in {"running", "returned", "handler"}
               => SumTokens(SubSeq(log', loop'.log_at_handoff + 1, Len(log')))
                     = loop'.reported
         /\ (loop.pc = "running" /\ loop'.exc # NoException)
               => /\ loop'.pc = "handler"
                  /\ loop'.failure \in ErrorKinds
                  /\ UNCHANGED <<usage_history, log, now>>
                  /\ SumTokens(clean_old_records(usage_history', now'))
                        >= loop'.reported
         /\ (loop.pc = "execute_task" /\ loop'.pc # "execute_task")
               => (loop'.pc = "sleep"
                     <=> /\ WindowOf(log, now) # <<>>
                         /\ SumTokens(WindowOf(log, now))
                               + estimate_iteration_tokens(8) > max_tokens)]_vars

\* C38 witness: the stream of src/main.py raised after one usage figure; the
\* figure is the tracker's newest record and the handler has the exception
C38_Witness ==
    /\ loop.prog = "main"
    /\ loop.pc = "handler"
    /\ loop.failure \in ErrorKinds
    /\ loop.reported = estimate_iteration_tokens(8)
    /\ Len(RecordedThisRun) = 1
    /\ usage_history # <<>>
    /\ usage_history[Len(usage_history)] = TokenUsage(now, loop.reported)
    /\ loop.units = 2

\* ------------------------------------------- the loops on any state.md
\* what the workspace holds for state.md when a program is called
StateFiles ==
    {NoState, UnreadableState}
        \cup {StateText(t, n) : t \in BOOLEAN,
                                n \in {NotNumber} \cup (0..MaxIterations)}

\* a program called with a valid RalphConfig that caps the iterations, on a
\* workspace with any state.md
StartupInit ==
    /\ now = 0
    /\ loop \in {[NewLoop EXCEPT !.prog = p,
                                !.max_iterations = n,
                                !.state_file = f,
                                !.workspace_exists = (f.kind # "absent")] :
                    p \in Programs, n \in 1..MaxIterations, f \in StateFiles}
    /\ peer = NoPeer
    /\ max_tokens = 0
    /\ window_seconds = 60
    /\ persist_path = FALSE
    /\ usage_history = <<>>
    /\ file = NoFile
    /\ lastOp = "start"
    /\ arg = 0
    /\ ret = 0
    /\ saved = "none"
    /\ synced = FALSE
    /\ log = <<>>

StartupSpec == StartupInit /\ [][LiveNext]_vars

\* state.md can be read and parsed, and an iteration number is found in it
HoldsIteration(f) == f.kind = "text" /\ f.task /\ f.iteration >= 0

\* C39: at startup the iteration counter of the loop is the iteration number
\* extracted from the workspace state when that state is readable and
\* parsable, and 1 otherwise, a state that cannot be read or parsed being
\* replaced by a freshly created initial one; afterwards the counter changes
\* only by +1 per loop pass.
C39_IterationCounter ==
    [][/\ (loop.pc = "read_state" /\ loop'.pc = "tracker")
          => /\ loop'.state_iteration = IF HoldsIteration(loop.state_file)
                                        THEN loop.state_file.iteration
                                        ELSE 1
             /\ loop'.state_file = IF loop.state_file.kind = "text"
                                      /\ loop.state_file.task
                                   THEN loop.state_file
                                   ELSE StateText(TRUE, 1)
       /\ (loop.pc = "tracker" /\ loop'.pc = "top")
          => loop'.iteration = loop.state_iteration
       /\ (loop.pc \notin {"validate", "ensure_workspace", "read_state", "tracker"})
          => \/ loop'.iteration = loop.iteration
             \/ /\ loop'.iteration = loop.iteration + 1
                /\ loop.pc \in {"completed", "handler"}
                /\ loop'.pc = "top"
       /\ (loop.pc \in {"completed", "handler"} /\ loop'.pc = "top")
          => loop'.iteration = loop.iteration + 1]_vars

\* C39 witness: a loop that found "## Iteration" 2 in state.md has made the
\* pass of iteration 2 and stands at 3
C39_Witness ==
    /\ loop.state_file = StateText(TRUE, 2)
    /\ loop.start_iteration = 2
    /\ loop.units = 1
    /\ loop.iteration = 3
    /\ loop.pc = "top"

====
